---- MODULE Spec2Model ----
(***************************************************************************)
(* A model of omnipaxos/src/util.rs (PromiseMetaData and its ordering,     *)
(* PromiseState, LeaderState and its operations, SequenceNumber and        *)
(* check_msg_status, LogicalClock, Quorum) and of                          *)
(* omnipaxos/src/utils/vec_like.rs (VecLike).  Every method that changes   *)
(* its object is one action; every read-only method is an operator over    *)
(* the current state together with a call_ action that applies it and      *)
(* records what it returned in ret.                                        *)
(***************************************************************************)
EXTENDS Integers, Sequences, FiniteSets, TLC

\* ------------------------------------------------------------------ bounds

\* Node ids are 1..NumNodes.
NumNodes == 3
\* Ballot rounds are 0..MaxRound.
MaxRound == 1
\* Log indexes (a promise's accepted_idx, an acknowledged index) are in 0..MaxIdx.
MaxIdx == 1
\* The peer lists handed to get_preparable_peers have at most MaxLen entries.
MaxLen == 2
\* At most MaxFold promises are folded into a fresh LeaderState in SpecFold.
MaxFold == 3
\* Sessions and counters of sequence numbers are in 0..MaxSeq.
MaxSeq == 3

\* A LogicalClock is created with a timeout in 0..MaxTimeout.
MaxTimeout == 4
\* A LogicalClock is ticked at most MaxTicks times.
MaxTicks == 24
\* Quorum::with is handed a cluster of 0..MaxCluster nodes, and the quorum
\* predicates a count of 0..MaxCluster + 1.
MaxCluster == 5
\* The read and write sizes of a FlexibleQuorum are in 0..MaxQuorumSize.
MaxQuorumSize == 2
\* At most MaxIssue calls change sequence numbers in SpecSeqNum.
MaxIssue == 4
\* At most MaxCalls calls that change the LeaderState are recorded in
\* SpecMeta and SpecRepeat.
MaxCalls == 3
\* A VecLike is created with a max_size in 0..MaxSize and is indexed with
\* an index in 0..MaxSize.
MaxSize == 3
\* At most MaxWrites mutable indexings of a VecLike are recorded.
MaxWrites == 2

NodeIds == 1..NumNodes

\* ------------------------------------------------------------ state

VARIABLES
    n_leader,
    promises_meta,
    follower_seq_nums,
    accepted_indexes,
    max_promise_meta,
    max_promise_sync,
    latest_accept_meta,
    quorum,
    ret,
    clock,
    vec_like,
    hist,
    hi_ack,
    last_ack

\* The fields of LeaderState.
lsVars == <<n_leader, promises_meta, follower_seq_nums, accepted_indexes, max_promise_meta, max_promise_sync, latest_accept_meta, quorum>>

\* The objects beside the LeaderState: a LogicalClock and a VecLike.
auxVars == <<clock, vec_like>>

\* History variables, which the program does not hold: the calls made so far
\* that the specification at hand records (hist), and per node the highest
\* and the latest index it has acknowledged through set_accepted_idx (<<>>
\* while it has acknowledged none).
ghostVars == <<hist, hi_ack, last_ack>>

vars == <<lsVars, auxVars, ret, ghostVars>>

\* ------------------------------------------------------------ values

\* Option<T>: None, Some(x).
None == <<>>

Some(x) == <<x>>

\* The () a method without a result returns.
Unit == <<>>

\* Ballot: a round and the pid breaking ties (Default: all fields 0).
Ballot(n, pid) == [n |-> n, pid |-> pid]

BallotDefault == Ballot(0, 0)

\* Ballot's derived Ord, by round and then by pid.
BallotGt(a, b) == a.n > b.n \/ (a.n = b.n /\ a.pid > b.pid)

LogSync(sync_idx) == [decided_snapshot |-> None, suffix |-> <<>>, sync_idx |-> sync_idx, stopsign |-> None]

\* The fields of a Promise message that set_promise reads.
Promise(n_accepted, accepted_idx, decided_idx, log_sync) == [n_accepted |-> n_accepted, accepted_idx |-> accepted_idx, decided_idx |-> decided_idx, log_sync |-> log_sync]

PromiseMetaData(n_accepted, accepted_idx, decided_idx, pid) == [n_accepted |-> n_accepted, accepted_idx |-> accepted_idx, decided_idx |-> decided_idx, pid |-> pid]

PromiseMetaDataDefault == PromiseMetaData(BallotDefault, 0, 0, 0)

partial_cmp_idx_first(a, b) ==
    IF a.n_accepted = b.n_accepted /\ a.accepted_idx = b.accepted_idx /\ a.pid = b.pid
    THEN "Equal"
    ELSE IF a.accepted_idx > b.accepted_idx \/ (a.accepted_idx = b.accepted_idx /\ BallotGt(a.n_accepted, b.n_accepted))
         THEN "Greater"
         ELSE "Less"

\* PromiseMetaData::partial_cmp.
partial_cmp(a, b) ==
    IF a.n_accepted = b.n_accepted /\ a.accepted_idx = b.accepted_idx /\ a.pid = b.pid
    THEN "Equal"
    ELSE IF BallotGt(a.n_accepted, b.n_accepted) \/ (a.n_accepted = b.n_accepted /\ a.accepted_idx > b.accepted_idx)
         THEN "Greater"
         ELSE "Less"

\* a > b of PartialOrd: partial_cmp is Greater.
Gt(a, b) == partial_cmp(a, b) = "Greater"

\* a < b of PartialOrd: partial_cmp is Less.
Lt(a, b) == partial_cmp(a, b) = "Less"

\* PromiseMetaData's PartialEq::eq: decided_idx is not compared.
eq(a, b) == a.n_accepted = b.n_accepted /\ a.accepted_idx = b.accepted_idx /\ a.pid = b.pid

\* A comparison of two PromiseMetaData by partial_cmp and by eq.
call_partial_cmp(self, other) ==
    /\ ret' = [op |-> "partial_cmp", self |-> self, other |-> other, val |-> partial_cmp(self, other), eq |-> eq(self, other)]
    /\ UNCHANGED lsVars

\* PromiseState.
NotPromised == [tag |-> "NotPromised"]

Promised(meta) == [tag |-> "Promised", meta |-> meta]

PromisedHigher == [tag |-> "PromisedHigher"]

\* SequenceNumber (Default: session 0, counter 0).
SequenceNumber(session, counter) == [session |-> session, counter |-> counter]

SequenceNumberDefault == SequenceNumber(0, 0)

\* Quorum.
Majority(n) == [kind |-> "Majority", majority |-> n, read_quorum_size |-> 0, write_quorum_size |-> 0]

Flexible(r, w) == [kind |-> "Flexible", majority |-> 0, read_quorum_size |-> r, write_quorum_size |-> w]

QuorumWith_ceil_half(flexible_quorum_config, num_nodes) ==
    IF flexible_quorum_config # None
    THEN Flexible(flexible_quorum_config[1].read_quorum_size, flexible_quorum_config[1].write_quorum_size)
    ELSE Majority((num_nodes + 1) \div 2)

\* Quorum::with.
QuorumWith(flexible_quorum_config, num_nodes) ==
    IF flexible_quorum_config # None
    THEN Flexible(flexible_quorum_config[1].read_quorum_size, flexible_quorum_config[1].write_quorum_size)
    ELSE Majority((num_nodes \div 2) + 1)

is_prepare_quorum_strict(q, num_nodes) ==
    IF q.kind = "Majority" THEN num_nodes > q.majority ELSE num_nodes > q.read_quorum_size

\* Quorum::is_prepare_quorum.
is_prepare_quorum(q, num_nodes) ==
    IF q.kind = "Majority" THEN num_nodes >= q.majority ELSE num_nodes >= q.read_quorum_size

\* Quorum::is_accept_quorum.
is_accept_quorum(q, num_nodes) ==
    IF q.kind = "Majority" THEN num_nodes >= q.majority ELSE num_nodes >= q.write_quorum_size

\* NodeMap::insert: the entry of k is set, whether or not the map held one.
Insert(map, k, v) == [x \in (DOMAIN map) \cup {k} |-> IF x = k THEN v ELSE map[x]]

\* LogicalClock::with.
LogicalClockWith(timeout) == [time |-> 0, timeout |-> timeout]

\* VecLike::new: no entry is allocated.
VecLikeNew(default_value, max_size) == [default_value |-> default_value, max_size |-> max_size, data |-> <<>>]

\* The clock and the vector of a specification that is about neither.
AuxInit ==
    /\ clock = LogicalClockWith(1)
    /\ vec_like = VecLikeNew(0, 0)

\* ------------------------------------------------------------ LeaderState

\* LeaderState::with: every peer NotPromised, sequence number (0, 0),
\* accepted index 0 and no latest accept.
With(ballot, peers, q) ==
    /\ n_leader = ballot
    /\ promises_meta = [p \in peers |-> NotPromised]
    /\ follower_seq_nums = [p \in peers |-> SequenceNumberDefault]
    /\ accepted_indexes = [p \in peers |-> 0]
    /\ max_promise_meta = PromiseMetaDataDefault
    /\ max_promise_sync = None
    /\ latest_accept_meta = [p \in peers |-> None]
    /\ quorum = q
    /\ ret = [op |-> "with", val |-> Unit]

\* The fields of a LeaderState without peers, in the specifications of the
\* objects that are not a LeaderState.
NoLeaderState ==
    /\ n_leader = BallotDefault
    /\ promises_meta = <<>>
    /\ follower_seq_nums = <<>>
    /\ accepted_indexes = <<>>
    /\ max_promise_meta = PromiseMetaDataDefault
    /\ max_promise_sync = None
    /\ latest_accept_meta = <<>>
    /\ quorum = Majority(1)

GhostInit ==
    /\ hist = <<>>
    /\ hi_ack = [p \in NodeIds |-> None]
    /\ last_ack = [p \in NodeIds |-> None]

increment_seq_num_session_same_session(pid) ==
    /\ follower_seq_nums' = IF pid \in DOMAIN follower_seq_nums
                            THEN [follower_seq_nums EXCEPT ![pid] = SequenceNumber(@.session, 0)]
                            ELSE follower_seq_nums
    /\ ret' = [op |-> "increment_seq_num_session", val |-> Unit]
    /\ UNCHANGED <<n_leader, promises_meta, accepted_indexes, max_promise_meta, max_promise_sync, latest_accept_meta, quorum>>

\* LeaderState::increment_seq_num_session: nothing happens to a pid the map
\* does not know.
increment_seq_num_session(pid) ==
    /\ follower_seq_nums' = IF pid \in DOMAIN follower_seq_nums
                            THEN [follower_seq_nums EXCEPT ![pid] = SequenceNumber(@.session + 1, 0)]
                            ELSE follower_seq_nums
    /\ ret' = [op |-> "increment_seq_num_session", val |-> Unit]
    /\ UNCHANGED <<n_leader, promises_meta, accepted_indexes, max_promise_meta, max_promise_sync, latest_accept_meta, quorum>>

next_seq_num_returns_old(pid) ==
    /\ follower_seq_nums' = IF pid \in DOMAIN follower_seq_nums
                            THEN [follower_seq_nums EXCEPT ![pid] = SequenceNumber(@.session, @.counter + 1)]
                            ELSE Insert(follower_seq_nums, pid, SequenceNumber(0, 1))
    /\ ret' = [op |-> "next_seq_num", val |-> IF pid \in DOMAIN follower_seq_nums THEN follower_seq_nums[pid] ELSE SequenceNumber(0, 1)]
    /\ UNCHANGED <<n_leader, promises_meta, accepted_indexes, max_promise_meta, max_promise_sync, latest_accept_meta, quorum>>

\* LeaderState::next_seq_num: a pid the map does not know is entered with
\* session 0 and counter 1.
next_seq_num(pid) ==
    /\ follower_seq_nums' = IF pid \in DOMAIN follower_seq_nums
                            THEN [follower_seq_nums EXCEPT ![pid] = SequenceNumber(@.session, @.counter + 1)]
                            ELSE Insert(follower_seq_nums, pid, SequenceNumber(0, 1))
    /\ ret' = [op |-> "next_seq_num", val |-> follower_seq_nums'[pid]]
    /\ UNCHANGED <<n_leader, promises_meta, accepted_indexes, max_promise_meta, max_promise_sync, latest_accept_meta, quorum>>

\* LeaderState::get_seq_num.
get_seq_num(pid) == IF pid \in DOMAIN follower_seq_nums THEN follower_seq_nums[pid] ELSE SequenceNumberDefault

call_get_seq_num(pid) ==
    /\ ret' = [op |-> "get_seq_num", pid |-> pid, val |-> get_seq_num(pid)]
    /\ UNCHANGED lsVars

num_promised_not_notpromised(pm) == Cardinality({p \in DOMAIN pm : pm[p].tag # "NotPromised"})

\* The num_promised of set_promise: the entries of the map that are Promised.
num_promised(pm) == Cardinality({p \in DOMAIN pm : pm[p].tag = "Promised"})

adopts_not_less(promise_meta, check_max_prom) == check_max_prom /\ partial_cmp(promise_meta, max_promise_meta) # "Less"

\* The condition of set_promise under which the promise becomes the maximum.
adopts(promise_meta, check_max_prom) == check_max_prom /\ Gt(promise_meta, max_promise_meta)

\* LeaderState::set_promise.
set_promise(prom, from, check_max_prom) ==
    LET promise_meta == PromiseMetaData(prom.n_accepted, prom.accepted_idx, prom.decided_idx, from)
    IN /\ IF adopts(promise_meta, check_max_prom)
          THEN /\ max_promise_meta' = promise_meta
               /\ max_promise_sync' = prom.log_sync
          ELSE UNCHANGED <<max_promise_meta, max_promise_sync>>
       /\ promises_meta' = Insert(promises_meta, from, Promised(promise_meta))
       /\ ret' = [op |-> "set_promise", val |-> is_prepare_quorum(quorum, num_promised(promises_meta'))]
       /\ UNCHANGED <<n_leader, follower_seq_nums, accepted_indexes, latest_accept_meta, quorum>>

reset_promise_forgets_max(pid) ==
    /\ promises_meta' = Insert(promises_meta, pid, NotPromised)
    /\ IF max_promise_meta.pid = pid
       THEN max_promise_meta' = PromiseMetaDataDefault /\ max_promise_sync' = None
       ELSE UNCHANGED <<max_promise_meta, max_promise_sync>>
    /\ ret' = [op |-> "reset_promise", val |-> Unit]
    /\ UNCHANGED <<n_leader, follower_seq_nums, accepted_indexes, latest_accept_meta, quorum>>

\* LeaderState::reset_promise.
reset_promise(pid) ==
    /\ promises_meta' = Insert(promises_meta, pid, NotPromised)
    /\ ret' = [op |-> "reset_promise", val |-> Unit]
    /\ UNCHANGED <<n_leader, follower_seq_nums, accepted_indexes, max_promise_meta, max_promise_sync, latest_accept_meta, quorum>>

lost_promise_only_forward(pid) ==
    /\ promises_meta' = IF pid \in DOMAIN promises_meta /\ promises_meta[pid].tag = "Promised" THEN promises_meta ELSE Insert(promises_meta, pid, PromisedHigher)
    /\ ret' = [op |-> "lost_promise", val |-> Unit]
    /\ UNCHANGED <<n_leader, follower_seq_nums, accepted_indexes, max_promise_meta, max_promise_sync, latest_accept_meta, quorum>>

\* LeaderState::lost_promise.
lost_promise(pid) ==
    /\ promises_meta' = Insert(promises_meta, pid, PromisedHigher)
    /\ ret' = [op |-> "lost_promise", val |-> Unit]
    /\ UNCHANGED <<n_leader, follower_seq_nums, accepted_indexes, max_promise_meta, max_promise_sync, latest_accept_meta, quorum>>

take_max_promise_sync_clone ==
    /\ ret' = [op |-> "take_max_promise_sync", val |-> max_promise_sync]
    /\ UNCHANGED lsVars

\* LeaderState::take_max_promise_sync: mem::take leaves the default, None.
take_max_promise_sync ==
    /\ ret' = [op |-> "take_max_promise_sync", val |-> max_promise_sync]
    /\ max_promise_sync' = None
    /\ UNCHANGED <<n_leader, promises_meta, follower_seq_nums, accepted_indexes, max_promise_meta, latest_accept_meta, quorum>>

get_promise_meta_or_default(pid) ==
    IF pid \in DOMAIN promises_meta /\ promises_meta[pid].tag = "Promised"
    THEN [panicked |-> FALSE, val |-> promises_meta[pid].meta]
    ELSE [panicked |-> FALSE, val |-> PromiseMetaDataDefault]

\* LeaderState::get_promise_meta: the metadata of a Promised peer, and a
\* panic for any other pid.
get_promise_meta(pid) ==
    IF pid \in DOMAIN promises_meta /\ promises_meta[pid].tag = "Promised"
    THEN [panicked |-> FALSE, val |-> promises_meta[pid].meta]
    ELSE [panicked |-> TRUE, val |-> Unit]

call_get_promise_meta(pid) ==
    /\ ret' = [op |-> "get_promise_meta", pid |-> pid, panicked |-> get_promise_meta(pid).panicked, val |-> get_promise_meta(pid).val]
    /\ UNCHANGED lsVars

\* LeaderState::get_decided_idx.
get_decided_idx(pid) ==
    IF pid \in DOMAIN promises_meta /\ promises_meta[pid].tag = "Promised"
    THEN Some(promises_meta[pid].meta.decided_idx)
    ELSE None

call_get_decided_idx(pid) ==
    /\ ret' = [op |-> "get_decided_idx", pid |-> pid, val |-> get_decided_idx(pid)]
    /\ UNCHANGED lsVars

\* LeaderState::get_promised_followers, as the set of the pids it returns:
\* the Promised peers other than the leader itself.
get_promised_followers == {pid \in DOMAIN promises_meta : promises_meta[pid].tag = "Promised" /\ pid # n_leader.pid}

\* A call of get_promised_followers: the pids are collected in the
\* iteration order of the map, which is any order.
call_get_promised_followers ==
    /\ \E order \in [1..Cardinality(get_promised_followers) -> get_promised_followers] :
        /\ \A i, j \in DOMAIN order : order[i] = order[j] => i = j
        /\ ret' = [op |-> "get_promised_followers", val |-> order]
    /\ UNCHANGED lsVars

RECURSIVE get_preparable_peers_unpromised(_)
get_preparable_peers_unpromised(peers) ==
    IF peers = <<>>
    THEN <<>>
    ELSE (IF promises_meta[Head(peers)].tag # "Promised" THEN <<Head(peers)>> ELSE <<>>) \o get_preparable_peers_unpromised(Tail(peers))

RECURSIVE get_preparable_peers_not_higher(_)
get_preparable_peers_not_higher(peers) ==
    IF peers = <<>>
    THEN <<>>
    ELSE (IF promises_meta[Head(peers)].tag # "PromisedHigher" THEN <<Head(peers)>> ELSE <<>>) \o get_preparable_peers_not_higher(Tail(peers))

\* LeaderState::get_preparable_peers on peers the map knows: the filter_map
\* over the list, keeping the pids whose state is NotPromised.
RECURSIVE get_preparable_peers(_)
get_preparable_peers(peers) ==
    IF peers = <<>>
    THEN <<>>
    ELSE (IF promises_meta[Head(peers)].tag = "NotPromised" THEN <<Head(peers)>> ELSE <<>>) \o get_preparable_peers(Tail(peers))

\* A call of get_preparable_peers: the unwrap panics on a pid the map does
\* not know; nothing of the LeaderState changes either way.
call_get_preparable_peers(peers) ==
    /\ ret' = IF \E i \in DOMAIN peers : peers[i] \notin DOMAIN promises_meta
              THEN [op |-> "panic", arg |-> peers, val |-> Unit]
              ELSE [op |-> "get_preparable_peers", arg |-> peers, val |-> get_preparable_peers(peers)]
    /\ UNCHANGED lsVars

set_accepted_idx_accumulate(pid, idx) ==
    /\ accepted_indexes' = Insert(accepted_indexes, pid, (IF pid \in DOMAIN accepted_indexes THEN accepted_indexes[pid] ELSE 0) + idx)
    /\ ret' = [op |-> "set_accepted_idx", val |-> Unit]
    /\ UNCHANGED <<n_leader, promises_meta, follower_seq_nums, max_promise_meta, max_promise_sync, latest_accept_meta, quorum>>

set_accepted_idx_high_water(pid, idx) ==
    /\ accepted_indexes' = Insert(accepted_indexes, pid, IF pid \in DOMAIN accepted_indexes /\ accepted_indexes[pid] > idx THEN accepted_indexes[pid] ELSE idx)
    /\ ret' = [op |-> "set_accepted_idx", val |-> Unit]
    /\ UNCHANGED <<n_leader, promises_meta, follower_seq_nums, max_promise_meta, max_promise_sync, latest_accept_meta, quorum>>

\* LeaderState::set_accepted_idx.
set_accepted_idx(pid, idx) ==
    /\ accepted_indexes' = Insert(accepted_indexes, pid, idx)
    /\ ret' = [op |-> "set_accepted_idx", val |-> Unit]
    /\ UNCHANGED <<n_leader, promises_meta, follower_seq_nums, max_promise_meta, max_promise_sync, latest_accept_meta, quorum>>

\* LeaderState::set_latest_accept_meta: idx is paired with the leader's
\* ballot, and None stays None.
set_latest_accept_meta(pid, idx) ==
    LET meta == IF idx # None THEN Some(<<n_leader, idx[1]>>) ELSE None
    IN /\ latest_accept_meta' = Insert(latest_accept_meta, pid, meta)
       /\ ret' = [op |-> "set_latest_accept_meta", val |-> Unit]
       /\ UNCHANGED <<n_leader, promises_meta, follower_seq_nums, accepted_indexes, max_promise_meta, max_promise_sync, quorum>>

\* LeaderState::get_latest_accept_meta: None also for a pid the map does not
\* know.
get_latest_accept_meta(pid) == IF pid \in DOMAIN latest_accept_meta THEN latest_accept_meta[pid] ELSE None

\* LeaderState::get_accepted_idx.
get_accepted_idx(pid) == IF pid \in DOMAIN accepted_indexes THEN accepted_indexes[pid] ELSE 0

call_get_accepted_idx(pid) ==
    /\ ret' = [op |-> "get_accepted_idx", val |-> get_accepted_idx(pid)]
    /\ UNCHANGED lsVars

num_accepted_above(idx) == Cardinality({p \in DOMAIN accepted_indexes : accepted_indexes[p] > idx})

\* The num_accepted of is_chosen: the entries of the map that are >= idx.
num_accepted(idx) == Cardinality({p \in DOMAIN accepted_indexes : accepted_indexes[p] >= idx})

is_chosen_by_prepare_quorum(idx) == is_prepare_quorum(quorum, num_accepted(idx))

\* LeaderState::is_chosen.
is_chosen(idx) == is_accept_quorum(quorum, num_accepted(idx))

call_is_chosen(idx) ==
    /\ ret' = [op |-> "is_chosen", val |-> is_chosen(idx)]
    /\ UNCHANGED lsVars

\* SequenceNumber's derived Ord, by session and then by counter: a <= b.
SeqLe(a, b) == a.session < b.session \/ (a.session = b.session /\ a.counter <= b.counter)

check_msg_status_strict(self, msg_seq_num) ==
    IF msg_seq_num.session = self.session /\ msg_seq_num.counter = self.counter + 1
    THEN "Expected"
    ELSE IF SeqLe(msg_seq_num, self) /\ msg_seq_num # self
         THEN "Outdated"
         ELSE "DroppedPreceding"

\* SequenceNumber::check_msg_status.
check_msg_status(self, msg_seq_num) ==
    IF msg_seq_num.session = self.session /\ msg_seq_num.counter = self.counter + 1
    THEN "Expected"
    ELSE IF SeqLe(msg_seq_num, self)
         THEN "Outdated"
         ELSE "DroppedPreceding"

call_check_msg_status(self, msg_seq_num) ==
    /\ ret' = [op |-> "check_msg_status", self |-> self, msg |-> msg_seq_num, val |-> check_msg_status(self, msg_seq_num)]
    /\ UNCHANGED lsVars

\* A call of is_prepare_quorum on the quorum of the LeaderState.
call_is_prepare_quorum(num_nodes) ==
    /\ ret' = [op |-> "is_prepare_quorum", num_nodes |-> num_nodes, val |-> is_prepare_quorum(quorum, num_nodes)]
    /\ UNCHANGED lsVars

\* A call of is_accept_quorum on the quorum of the LeaderState.
call_is_accept_quorum(num_nodes) ==
    /\ ret' = [op |-> "is_accept_quorum", num_nodes |-> num_nodes, val |-> is_accept_quorum(quorum, num_nodes)]
    /\ UNCHANGED lsVars

\* ------------------------------------------------------------ LogicalClock

tick_and_check_timeout_no_reset ==
    LET time == clock.time + 1
    IN /\ clock' = [clock EXCEPT !.time = time]
       /\ ret' = [op |-> "tick_and_check_timeout", val |-> (time = clock.timeout)]
       /\ UNCHANGED <<lsVars, vec_like>>

\* LogicalClock::tick_and_check_timeout.
tick_and_check_timeout ==
    LET time == clock.time + 1
    IN /\ IF time = clock.timeout
          THEN /\ clock' = [clock EXCEPT !.time = 0]
               /\ ret' = [op |-> "tick_and_check_timeout", val |-> TRUE]
          ELSE /\ clock' = [clock EXCEPT !.time = time]
               /\ ret' = [op |-> "tick_and_check_timeout", val |-> FALSE]
       /\ UNCHANGED <<lsVars, vec_like>>

\* ------------------------------------------------------------ VecLike

get_off_by_one(i) ==
    IF i > vec_like.max_size
    THEN None
    ELSE Some(IF i \in DOMAIN vec_like.data THEN vec_like.data[i] ELSE vec_like.default_value)

\* VecLike::get: None at or beyond max_size, else the entry of the map or,
\* if there is none, the default value.
get(i) ==
    IF i >= vec_like.max_size
    THEN None
    ELSE Some(IF i \in DOMAIN vec_like.data THEN vec_like.data[i] ELSE vec_like.default_value)

call_get(i) ==
    /\ ret' = [op |-> "get", index |-> i, val |-> get(i)]
    /\ UNCHANGED vec_like

\* Index::index of VecLike: a panic at or beyond max_size, else as get.
index(i) ==
    IF i >= vec_like.max_size
    THEN [panicked |-> TRUE, val |-> Unit]
    ELSE [panicked |-> FALSE, val |-> IF i \in DOMAIN vec_like.data THEN vec_like.data[i] ELSE vec_like.default_value]

call_index(i) ==
    /\ ret' = [op |-> "index", index |-> i, panicked |-> index(i).panicked, val |-> index(i).val]
    /\ UNCHANGED vec_like

\* IndexMut::index_mut of VecLike, and what the caller does with the
\* reference: a panic at or beyond max_size; else the entry is inserted with
\* the default value unless the map has it, and assign, if not None, is then
\* stored through the reference.
index_mut(i, assign) ==
    IF i >= vec_like.max_size
    THEN /\ ret' = [op |-> "index_mut", index |-> i, panicked |-> TRUE, val |-> Unit]
         /\ UNCHANGED vec_like
    ELSE LET entry == IF i \in DOMAIN vec_like.data THEN vec_like.data[i] ELSE vec_like.default_value
             stored == IF assign # None THEN assign[1] ELSE entry
         IN /\ vec_like' = [vec_like EXCEPT !.data = Insert(@, i, stored)]
            /\ ret' = [op |-> "index_mut", index |-> i, panicked |-> FALSE, val |-> stored]

\* VecLike::is_empty.
is_empty == vec_like.max_size = 0

call_is_empty ==
    /\ ret' = [op |-> "is_empty", val |-> is_empty]
    /\ UNCHANGED vec_like

\* The allocated_count of the tests: the size of the map.
allocated_count == Cardinality(DOMAIN vec_like.data)

\* ------------------------------------------------------------ inputs

\* The ballot of the leader that owns the LeaderState.
LeaderBallot == Ballot(MaxRound, 1)

\* The quorums a LeaderState is constructed with: the majority of the
\* cluster, all of it, and a flexible quorum that reads one node and writes all.
Quorums == {QuorumWith(None, NumNodes), Majority(NumNodes), QuorumWith(Some([read_quorum_size |-> 1, write_quorum_size |-> NumNodes]), NumNodes)}

\* The promises of SpecPromise: of the lowest and of the highest round, so
\* that Promised peers differ in their metadata.
RoundPromises == {Promise(Ballot(r, 1), 0, 0, None) : r \in {0, MaxRound}}

\* ------------------------------------------------------ SpecPromise

\* The peers a LeaderState is constructed with: every node, or every node
\* but the last, which is then a pid the maps do not know.
PeerSets == {NodeIds, NodeIds \ {NumNodes}}

InitPromise ==
    /\ \E peers \in PeerSets, q \in Quorums : With(LeaderBallot, peers, q)
    /\ AuxInit
    /\ GhostInit

SetPromiseStep == \E prom \in RoundPromises, from \in NodeIds, check_max_prom \in BOOLEAN : set_promise(prom, from, check_max_prom) /\ UNCHANGED <<auxVars, ghostVars>>

ResetPromiseStep == \E pid \in NodeIds : reset_promise(pid) /\ UNCHANGED <<auxVars, ghostVars>>

LostPromiseStep == \E pid \in NodeIds : lost_promise(pid) /\ UNCHANGED <<auxVars, ghostVars>>

NextPromise == SetPromiseStep \/ ResetPromiseStep \/ LostPromiseStep

SpecPromise == InitPromise /\ [][NextPromise]_vars

\* ---------------------------------------------------- SpecPreparable

\* The lists of at most MaxLen pids (a pid may repeat).
PeerLists == UNION {[1..n -> NodeIds] : n \in 0..MaxLen}

InitPreparable ==
    /\ \E peers \in PeerSets : With(LeaderBallot, peers, QuorumWith(None, NumNodes))
    /\ AuxInit
    /\ GhostInit

PrepSetPromiseStep == \E prom \in RoundPromises, from \in NodeIds : set_promise(prom, from, FALSE) /\ UNCHANGED <<auxVars, ghostVars>>

GetPreparablePeersStep == \E peers \in PeerLists : call_get_preparable_peers(peers) /\ UNCHANGED <<auxVars, ghostVars>>

NextPreparable == PrepSetPromiseStep \/ ResetPromiseStep \/ LostPromiseStep \/ GetPreparablePeersStep

SpecPreparable == InitPreparable /\ [][NextPreparable]_vars

\* ------------------------------------------------------------ SpecMax

\* The peers that promise in SpecMax.
Promisers == {1, 2}

\* The log_sync of a promise: none, or one of two told apart by sync_idx.
LogSyncs == {None, Some(LogSync(0)), Some(LogSync(1))}

\* The promises of SpecMax: every round, every accepted index, every log_sync.
MaxPromises == {Promise(Ballot(r, 1), i, 0, ls) : r \in 0..MaxRound, i \in 0..MaxIdx, ls \in LogSyncs}

InitMax ==
    /\ With(LeaderBallot, NodeIds, QuorumWith(None, NumNodes))
    /\ AuxInit
    /\ GhostInit

MaxSetPromiseStep == \E prom \in MaxPromises, from \in Promisers, check_max_prom \in BOOLEAN : set_promise(prom, from, check_max_prom) /\ UNCHANGED <<auxVars, ghostVars>>

MaxResetPromiseStep == \E pid \in Promisers : reset_promise(pid) /\ UNCHANGED <<auxVars, ghostVars>>

MaxLostPromiseStep == \E pid \in Promisers : lost_promise(pid) /\ UNCHANGED <<auxVars, ghostVars>>

TakeMaxPromiseSyncStep == take_max_promise_sync /\ UNCHANGED <<auxVars, ghostVars>>

NextMax == MaxSetPromiseStep \/ MaxResetPromiseStep \/ MaxLostPromiseStep \/ TakeMaxPromiseSyncStep

SpecMax == InitMax /\ [][NextMax]_vars

\* ------------------------------------------------------------ SpecFold

\* The set_promise calls of SpecFold, each with check_max_prom = true: the
\* three promises of the five-node scenario (peers 2, 3 and 4), a promise
\* like peer 4's from peer 5, a promise of peer 1's ballot with the highest
\* index, and the promise of a peer whose log is empty.
ScenarioCall(k) ==
    CASE k = 1 -> [prom |-> Promise(Ballot(1, 5), 10, 4, Some(LogSync(10))), from |-> 2]
      [] k = 2 -> [prom |-> Promise(Ballot(1, 3), 7, 7, Some(LogSync(7))), from |-> 3]
      [] k = 3 -> [prom |-> Promise(Ballot(2, 1), 12, 9, Some(LogSync(12))), from |-> 4]
      [] k = 4 -> [prom |-> Promise(Ballot(2, 1), 12, 12, Some(LogSync(9))), from |-> 5]
      [] k = 5 -> [prom |-> Promise(Ballot(1, 5), 13, 0, None), from |-> 3]
      [] k = 6 -> [prom |-> Promise(BallotDefault, 0, 0, Some(LogSync(0))), from |-> 2]

FoldCalls == {ScenarioCall(k) : k \in 1..6}

InitFold ==
    /\ With(Ballot(2, 1), {2, 3, 4, 5}, Majority(3))
    /\ AuxInit
    /\ GhostInit

FoldStep ==
    /\ Len(hist) < MaxFold
    /\ \E c \in FoldCalls :
        /\ set_promise(c.prom, c.from, TRUE)
        /\ hist' = Append(hist, c)
    /\ UNCHANGED <<auxVars, hi_ack, last_ack>>

NextFold == FoldStep

SpecFold == InitFold /\ [][NextFold]_vars

\* ---------------------------------------------------------- SpecAccept

InitAccept ==
    /\ \E peers \in PeerSets, q \in Quorums : With(LeaderBallot, peers, q)
    /\ AuxInit
    /\ GhostInit

\* An acknowledgement: set_accepted_idx, and the history of pid's
\* acknowledgements.
SetAcceptedIdxStep ==
    \E pid \in NodeIds, idx \in 0..MaxIdx :
        /\ set_accepted_idx(pid, idx)
        /\ last_ack' = [last_ack EXCEPT ![pid] = Some(idx)]
        /\ hi_ack' = [hi_ack EXCEPT ![pid] = IF hi_ack[pid] # None /\ hi_ack[pid][1] > idx THEN hi_ack[pid] ELSE Some(idx)]
        /\ UNCHANGED <<auxVars, hist>>

GetAcceptedIdxStep == \E pid \in NodeIds : call_get_accepted_idx(pid) /\ UNCHANGED <<auxVars, ghostVars>>

IsChosenStep == \E idx \in 0..(MaxIdx + 1) : call_is_chosen(idx) /\ UNCHANGED <<auxVars, ghostVars>>

NextAccept == SetAcceptedIdxStep \/ GetAcceptedIdxStep \/ IsChosenStep

SpecAccept == InitAccept /\ [][NextAccept]_vars

\* ------------------------------------------------------------- SpecSeq

SeqNums == {SequenceNumber(s, c) : s \in 0..MaxSeq, c \in 0..MaxSeq}

InitSeq ==
    /\ With(LeaderBallot, NodeIds, QuorumWith(None, NumNodes))
    /\ AuxInit
    /\ GhostInit

CheckMsgStatusStep == \E self \in SeqNums, msg_seq_num \in SeqNums : call_check_msg_status(self, msg_seq_num) /\ UNCHANGED <<auxVars, ghostVars>>

NextSeq == CheckMsgStatusStep

SpecSeq == InitSeq /\ [][NextSeq]_vars

\* ----------------------------------------------------------- SpecClock

\* A clock of any timeout in 0..MaxTimeout; hist holds what the ticks so far
\* returned.
InitClock ==
    /\ NoLeaderState
    /\ \E timeout \in 0..MaxTimeout : clock = LogicalClockWith(timeout)
    /\ vec_like = VecLikeNew(0, 0)
    /\ ret = [op |-> "LogicalClock::with", val |-> Unit]
    /\ GhostInit

TickStep ==
    /\ Len(hist) < MaxTicks
    /\ tick_and_check_timeout
    /\ hist' = Append(hist, ret'.val)
    /\ UNCHANGED <<hi_ack, last_ack>>

NextClock == TickStep

SpecClock == InitClock /\ [][NextClock]_vars

\* ---------------------------------------------------------- SpecQuorum

\* What Quorum::with is handed as its configuration: none, or any read and
\* write size.
FlexibleQuorums == {None} \cup {Some([read_quorum_size |-> r, write_quorum_size |-> w]) : r, w \in 0..MaxQuorumSize}

\* A LeaderState whose quorum is what Quorum::with returned; hist holds that
\* call of Quorum::with.
InitQuorum ==
    /\ \E flexible_quorum_config \in FlexibleQuorums, num_nodes \in 0..MaxCluster :
        /\ With(BallotDefault, {}, QuorumWith(flexible_quorum_config, num_nodes))
        /\ hist = <<[op |-> "Quorum::with", flexible_quorum_config |-> flexible_quorum_config, num_nodes |-> num_nodes]>>
    /\ AuxInit
    /\ hi_ack = [p \in NodeIds |-> None]
    /\ last_ack = [p \in NodeIds |-> None]

IsPrepareQuorumStep == \E num_nodes \in 0..(MaxCluster + 1) : call_is_prepare_quorum(num_nodes) /\ UNCHANGED <<auxVars, ghostVars>>

IsAcceptQuorumStep == \E num_nodes \in 0..(MaxCluster + 1) : call_is_accept_quorum(num_nodes) /\ UNCHANGED <<auxVars, ghostVars>>

NextQuorum == IsPrepareQuorumStep \/ IsAcceptQuorumStep

SpecQuorum == InitQuorum /\ [][NextQuorum]_vars

\* ---------------------------------------------------------- SpecSeqNum

\* The peers whose sequence numbers SpecSeqNum drives.
SeqPeers == {1, 2}

\* A LeaderState that knows both peers or only the first; hist holds the
\* calls of increment_seq_num_session and next_seq_num so far, with what
\* they returned.
InitSeqNum ==
    /\ \E peers \in {SeqPeers, SeqPeers \ {2}} : With(LeaderBallot, peers, QuorumWith(None, NumNodes))
    /\ AuxInit
    /\ GhostInit

IncrementSeqNumSessionStep ==
    /\ Len(hist) < MaxIssue
    /\ \E pid \in SeqPeers :
        /\ increment_seq_num_session(pid)
        /\ hist' = Append(hist, [op |-> "increment_seq_num_session", pid |-> pid, val |-> ret'.val])
    /\ UNCHANGED <<auxVars, hi_ack, last_ack>>

NextSeqNumStep ==
    /\ Len(hist) < MaxIssue
    /\ \E pid \in SeqPeers :
        /\ next_seq_num(pid)
        /\ hist' = Append(hist, [op |-> "next_seq_num", pid |-> pid, val |-> ret'.val])
    /\ UNCHANGED <<auxVars, hi_ack, last_ack>>

GetSeqNumStep == \E pid \in SeqPeers : call_get_seq_num(pid) /\ UNCHANGED <<auxVars, ghostVars>>

NextSeqNum == IncrementSeqNumSessionStep \/ NextSeqNumStep \/ GetSeqNumStep

SpecSeqNum == InitSeqNum /\ [][NextSeqNum]_vars

\* ------------------------------------------------------------ SpecMeta

\* The peers of SpecMeta: the leader itself (pid 1) and one follower.
MetaPeers == {1, 2}

\* The promises of SpecMeta, told apart by every field of their metadata.
MetaPromises == {Promise(Ballot(0, 1), 0, 0, None), Promise(Ballot(MaxRound, 1), MaxIdx, MaxIdx, None)}

\* The peer lists of SpecMeta, of at most two pids.
MetaPeerLists == UNION {[1..n -> MetaPeers] : n \in 0..2}

\* A LeaderState that knows both peers or only the leader; hist holds the
\* set_promise, reset_promise and lost_promise calls so far.
InitMeta ==
    /\ \E peers \in {MetaPeers, MetaPeers \ {2}} : With(LeaderBallot, peers, QuorumWith(None, 2))
    /\ AuxInit
    /\ GhostInit

MetaSetPromiseStep ==
    /\ Len(hist) < MaxCalls
    /\ \E prom \in MetaPromises, from \in MetaPeers, check_max_prom \in BOOLEAN :
        /\ set_promise(prom, from, check_max_prom)
        /\ hist' = Append(hist, [op |-> "set_promise", pid |-> from, prom |-> prom])
    /\ UNCHANGED <<auxVars, hi_ack, last_ack>>

MetaResetPromiseStep ==
    /\ Len(hist) < MaxCalls
    /\ \E pid \in MetaPeers :
        /\ reset_promise(pid)
        /\ hist' = Append(hist, [op |-> "reset_promise", pid |-> pid])
    /\ UNCHANGED <<auxVars, hi_ack, last_ack>>

MetaLostPromiseStep ==
    /\ Len(hist) < MaxCalls
    /\ \E pid \in MetaPeers :
        /\ lost_promise(pid)
        /\ hist' = Append(hist, [op |-> "lost_promise", pid |-> pid])
    /\ UNCHANGED <<auxVars, hi_ack, last_ack>>

GetPromiseMetaStep == \E pid \in MetaPeers : call_get_promise_meta(pid) /\ UNCHANGED <<auxVars, ghostVars>>

GetDecidedIdxStep == \E pid \in MetaPeers : call_get_decided_idx(pid) /\ UNCHANGED <<auxVars, ghostVars>>

GetPromisedFollowersStep == call_get_promised_followers /\ UNCHANGED <<auxVars, ghostVars>>

MetaGetPreparablePeersStep == \E peers \in MetaPeerLists : call_get_preparable_peers(peers) /\ UNCHANGED <<auxVars, ghostVars>>

NextMeta ==
    \/ MetaSetPromiseStep
    \/ MetaResetPromiseStep
    \/ MetaLostPromiseStep
    \/ GetPromiseMetaStep
    \/ GetDecidedIdxStep
    \/ GetPromisedFollowersStep
    \/ MetaGetPreparablePeersStep

SpecMeta == InitMeta /\ [][NextMeta]_vars

\* ----------------------------------------------------------- SpecOrder

\* The PromiseMetaData that are compared: ballots of every round from two
\* leaders, every accepted index, two decided indexes and two promisers.
Metas == {PromiseMetaData(Ballot(r, l), i, d, pid) : r \in 0..MaxRound, l \in 1..2, i \in 0..MaxIdx, d \in 0..1, pid \in 1..2}

InitOrder ==
    /\ With(LeaderBallot, NodeIds, QuorumWith(None, NumNodes))
    /\ AuxInit
    /\ GhostInit

PartialCmpStep == \E self \in Metas, other \in Metas : call_partial_cmp(self, other) /\ UNCHANGED <<auxVars, ghostVars>>

NextOrder == PartialCmpStep

SpecOrder == InitOrder /\ [][NextOrder]_vars

\* ---------------------------------------------------------- SpecRepeat

\* The indexes acknowledged in SpecRepeat: 0..MaxIdx, and 100.
AckIdxs == (0..MaxIdx) \cup {100}

\* hist holds the set_accepted_idx calls so far.
InitRepeat ==
    /\ With(LeaderBallot, NodeIds, QuorumWith(None, NumNodes))
    /\ AuxInit
    /\ GhostInit

RepeatSetAcceptedIdxStep ==
    /\ Len(hist) < MaxCalls
    /\ \E pid \in NodeIds, idx \in AckIdxs :
        /\ set_accepted_idx(pid, idx)
        /\ hist' = Append(hist, [op |-> "set_accepted_idx", pid |-> pid, idx |-> idx])
    /\ UNCHANGED <<auxVars, hi_ack, last_ack>>

RepeatIsChosenStep == \E idx \in AckIdxs : call_is_chosen(idx) /\ UNCHANGED <<auxVars, ghostVars>>

NextRepeat == RepeatSetAcceptedIdxStep \/ RepeatIsChosenStep

SpecRepeat == InitRepeat /\ [][NextRepeat]_vars

\* --------------------------------------------------------- SpecVecLike

\* The values a VecLike holds.
VecValues == {0, 1}

\* A VecLike of any default value and any max_size in 0..MaxSize; hist holds
\* the index_mut calls that did not panic, with the value each left behind.
InitVecLike ==
    /\ NoLeaderState
    /\ clock = LogicalClockWith(1)
    /\ \E default_value \in VecValues, max_size \in 0..MaxSize : vec_like = VecLikeNew(default_value, max_size)
    /\ ret = [op |-> "VecLike::new", val |-> Unit]
    /\ GhostInit

VecGetStep == \E i \in 0..MaxSize : call_get(i) /\ UNCHANGED <<lsVars, clock, ghostVars>>

VecIndexStep == \E i \in 0..MaxSize : call_index(i) /\ UNCHANGED <<lsVars, clock, ghostVars>>

VecIndexMutStep ==
    /\ Len(hist) < MaxWrites
    /\ \E i \in 0..MaxSize, assign \in {None} \cup {Some(v) : v \in VecValues} :
        /\ index_mut(i, assign)
        /\ hist' = IF ret'.panicked THEN hist ELSE Append(hist, [op |-> "index_mut", index |-> i, value |-> ret'.val])
    /\ UNCHANGED <<lsVars, clock, hi_ack, last_ack>>

VecIsEmptyStep == call_is_empty /\ UNCHANGED <<lsVars, clock, ghostVars>>

NextVecLike == VecGetStep \/ VecIndexStep \/ VecIndexMutStep \/ VecIsEmptyStep

SpecVecLike == InitVecLike /\ [][NextVecLike]_vars

\* ----------------------------------------------------------- SpecFrame

\* The peers of SpecFrame.
FramePeers == {1, 2}

\* The promises of SpecFrame, each with a LogSync of its own.
FramePromises == {Promise(Ballot(0, 1), MaxIdx, 0, Some(LogSync(0))), Promise(Ballot(MaxRound, 1), MaxIdx, MaxIdx, Some(LogSync(MaxIdx)))}

\* A LeaderState that knows both peers or only the first; hist holds the
\* calls so far.
InitFrame ==
    /\ \E peers \in {FramePeers, FramePeers \ {2}} : With(LeaderBallot, peers, QuorumWith(None, 2))
    /\ AuxInit
    /\ GhostInit

FrameSetPromiseStep ==
    /\ Len(hist) < MaxCalls
    /\ \E prom \in FramePromises, from \in FramePeers :
        /\ set_promise(prom, from, TRUE)
        /\ hist' = Append(hist, [op |-> "set_promise", pid |-> from])
    /\ UNCHANGED <<auxVars, hi_ack, last_ack>>

FrameResetPromiseStep ==
    /\ Len(hist) < MaxCalls
    /\ \E pid \in FramePeers :
        /\ reset_promise(pid)
        /\ hist' = Append(hist, [op |-> "reset_promise", pid |-> pid])
    /\ UNCHANGED <<auxVars, hi_ack, last_ack>>

FrameLostPromiseStep ==
    /\ Len(hist) < MaxCalls
    /\ \E pid \in FramePeers :
        /\ lost_promise(pid)
        /\ hist' = Append(hist, [op |-> "lost_promise", pid |-> pid])
    /\ UNCHANGED <<auxVars, hi_ack, last_ack>>

FrameSetAcceptedIdxStep ==
    /\ Len(hist) < MaxCalls
    /\ \E pid \in FramePeers :
        /\ set_accepted_idx(pid, MaxIdx)
        /\ hist' = Append(hist, [op |-> "set_accepted_idx", pid |-> pid])
    /\ UNCHANGED <<auxVars, hi_ack, last_ack>>

FrameNextSeqNumStep ==
    /\ Len(hist) < MaxCalls
    /\ \E pid \in FramePeers :
        /\ next_seq_num(pid)
        /\ hist' = Append(hist, [op |-> "next_seq_num", pid |-> pid])
    /\ UNCHANGED <<auxVars, hi_ack, last_ack>>

FrameSetLatestAcceptMetaStep ==
    /\ Len(hist) < MaxCalls
    /\ \E pid \in FramePeers, idx \in {None, Some(MaxIdx)} :
        /\ set_latest_accept_meta(pid, idx)
        /\ hist' = Append(hist, [op |-> "set_latest_accept_meta", pid |-> pid])
    /\ UNCHANGED <<auxVars, hi_ack, last_ack>>

NextFrame ==
    \/ FrameSetPromiseStep
    \/ FrameResetPromiseStep
    \/ FrameLostPromiseStep
    \/ FrameSetAcceptedIdxStep
    \/ FrameNextSeqNumStep
    \/ FrameSetLatestAcceptMetaStep

SpecFrame == InitFrame /\ [][NextFrame]_vars

\* ------------------------------------------------------------ claims

\* The promise state of pid p in the map pm ("Unknown": pm has no entry).
Tag(pm, p) == IF p \in DOMAIN pm THEN pm[p].tag ELSE "Unknown"

\* The peers whose promise state is Promised, as a set.
PromisedPeers == {p \in NodeIds : p \in DOMAIN promises_meta /\ promises_meta[p].tag = "Promised"}

\* What a quorum asks of a prepare count: its majority, or its read quorum size.
PrepareThreshold == IF quorum.kind = "Majority" THEN quorum.majority ELSE quorum.read_quorum_size

\* C1: after any sequence of set_promise, reset_promise and lost_promise
\* calls, set_promise returns true exactly when, with `from` recorded as
\* Promised, the number of peers in Promised state reaches the prepare
\* quorum; a peer counts once however often it promised, and under
\* Majority(3) the result is true exactly when three peers are Promised.
C1_SetPromiseReturnsQuorum ==
    ret.op = "set_promise" =>
        /\ ret.val = (Cardinality(PromisedPeers) >= PrepareThreshold)
        /\ quorum = Majority(3) => (ret.val = (Cardinality(PromisedPeers) >= 3))

\* A third promiser with metadata unlike another's completes Majority(3).
C1_Witness ==
    /\ ret.op = "set_promise"
    /\ quorum = Majority(3)
    /\ ret.val = TRUE
    /\ Cardinality(PromisedPeers) = 3
    /\ \E p, q \in PromisedPeers : promises_meta[p].meta.n_accepted # promises_meta[q].meta.n_accepted

\* C7 as stated: a peer's promise state only moves forward, from
\* NotPromised to Promised or to PromisedHigher, goes back to NotPromised
\* only through reset_promise, and never moves directly between Promised and
\* PromisedHigher.
C7_OnlyForward ==
    [][\A p \in NodeIds :
        LET a == Tag(promises_meta, p)
            b == Tag(promises_meta', p)
        IN a # b =>
            \/ a \in {"Unknown", "NotPromised"} /\ b \in {"Promised", "PromisedHigher"}
            \/ b = "NotPromised" /\ reset_promise(p)]_vars

\* C7 amended: a peer's promise state changes only through a call that names
\* the peer, and each call overwrites whatever state the peer was in:
\* set_promise makes it Promised, lost_promise PromisedHigher (also a
\* Promised peer) and reset_promise NotPromised; only reset_promise leads
\* back to NotPromised.
C7_StateFollowsLastCall ==
    [][\A p \in NodeIds :
        LET a == Tag(promises_meta, p)
            b == Tag(promises_meta', p)
            set == ret'.op = "set_promise" /\ \E prom \in RoundPromises, c \in BOOLEAN : set_promise(prom, p, c)
            lost == ret'.op = "lost_promise" /\ lost_promise(p)
            reset == ret'.op = "reset_promise" /\ reset_promise(p)
        IN /\ a # b =>
                \/ b = "Promised" /\ set
                \/ b = "PromisedHigher" /\ lost
                \/ b = "NotPromised" /\ reset
           /\ set => b = "Promised"
           /\ lost => b = "PromisedHigher"
           /\ reset => b = "NotPromised"]_vars

\* The peer whose promise is the maximum is PromisedHigher after lost_promise.
C7_Witness ==
    /\ ret.op = "lost_promise"
    /\ max_promise_meta.pid \in NodeIds
    /\ Tag(promises_meta, max_promise_meta.pid) = "PromisedHigher"

IsNotPromised(p) == promises_meta[p].tag = "NotPromised"

\* The list s with its entries i and j exchanged.
Swap(s, i, j) == [k \in DOMAIN s |-> IF k = i THEN s[j] ELSE IF k = j THEN s[i] ELSE s[k]]

\* How often x occurs in the list s.
Occurrences(s, x) == Cardinality({i \in DOMAIN s : s[i] = x})

\* Whether every pid of the list has an entry in promises_meta.
AllKnown(peers) == \A i \in DOMAIN peers : peers[i] \in DOMAIN promises_meta

C5_MaxPromiseMonotonic ==
    [][/\ partial_cmp(max_promise_meta', max_promise_meta) # "Less"
       /\ (ret'.op = "set_promise" /\ <<max_promise_meta, max_promise_sync>>' # <<max_promise_meta, max_promise_sync>>) =>
            \A from \in Promisers : \A ls \in LogSyncs :
                (/\ Tag(promises_meta', from) = "Promised"
                 /\ partial_cmp(promises_meta'[from].meta, max_promise_meta) \in {"Less", "Equal"})
                => LET m == promises_meta'[from].meta
                   IN ~set_promise(Promise(m.n_accepted, m.accepted_idx, m.decided_idx, ls), from, TRUE)]_vars

\* A promise below the maximum is recorded, and the maximum with its LogSync
\* is another peer's.
C5_Witness ==
    /\ ret.op = "set_promise"
    /\ max_promise_sync # None
    /\ \E p \in PromisedPeers : p # max_promise_meta.pid /\ partial_cmp(promises_meta[p].meta, max_promise_meta) = "Less"

\* C9: take_max_promise_sync returns the LogSync held and leaves None, with
\* max_promise_meta and all per-peer state as they were; a take right after a
\* take returns None; and once None, max_promise_sync becomes Some again only
\* by a set_promise that adopts a strictly greater promise.
C9_TakeIsOneShot ==
    [][/\ ret'.op = "take_max_promise_sync" =>
            /\ ret'.val = max_promise_sync
            /\ max_promise_sync' = None
            /\ UNCHANGED <<n_leader, promises_meta, follower_seq_nums, accepted_indexes, max_promise_meta, latest_accept_meta, quorum>>
       /\ (ret.op = "take_max_promise_sync" /\ ret'.op = "take_max_promise_sync") => ret'.val = None
       /\ (max_promise_sync = None /\ max_promise_sync' # None) =>
            /\ ret'.op = "set_promise"
            /\ Gt(max_promise_meta', max_promise_meta)]_vars

\* A take returned the LogSync of an adopted promise and left None.
C9_Witness ==
    /\ ret.op = "take_max_promise_sync"
    /\ ret.val # None
    /\ max_promise_sync = None
    /\ max_promise_meta # PromiseMetaDataDefault

\* The (n_accepted, accepted_idx) pair of the k-th promise folded in.
FoldedPair(k) == <<hist[k].prom.n_accepted, hist[k].prom.accepted_idx>>

\* The order of the pairs: the ballot first, then the accepted index.
PairGt(a, b) == BallotGt(a[1], b[1]) \/ (a[1] = b[1] /\ a[2] > b[2])

\* The first of the promises folded in that holds the greatest pair.
FirstGreatest ==
    CHOOSE k \in 1..Len(hist) :
        /\ \A j \in 1..Len(hist) : ~PairGt(FoldedPair(j), FoldedPair(k))
        /\ \A j \in 1..(k - 1) : FoldedPair(j) # FoldedPair(k)

\* C6: after set_promise calls with check_max_prom = true on a fresh
\* LeaderState, max_promise_meta holds the greatest (n_accepted,
\* accepted_idx) pair folded in, the ballot dominating; it is the metadata of
\* the first promise that held this pair, and max_promise_sync is that
\* promise's log_sync (none was adopted, and max_promise_sync is None, while
\* the greatest pair is the default one).  The three promises of the
\* scenario end with the metadata of the (2,1) promise of peer 4.
C6_MaxPromiseIsGreatestFolded ==
    hist # <<>> =>
        LET best == hist[FirstGreatest]
        IN /\ <<max_promise_meta.n_accepted, max_promise_meta.accepted_idx>> = FoldedPair(FirstGreatest)
           /\ IF FoldedPair(FirstGreatest) = <<BallotDefault, 0>>
              THEN max_promise_meta = PromiseMetaDataDefault /\ max_promise_sync = None
              ELSE /\ max_promise_meta = PromiseMetaData(best.prom.n_accepted, best.prom.accepted_idx, best.prom.decided_idx, best.from)
                   /\ max_promise_sync = best.prom.log_sync
           /\ hist = <<ScenarioCall(1), ScenarioCall(2), ScenarioCall(3)>> =>
                max_promise_meta = PromiseMetaData(Ballot(2, 1), 12, 9, 4)

\* The scenario's three promises are folded in and peer 4's is the maximum.
C6_Witness ==
    /\ hist = <<ScenarioCall(1), ScenarioCall(2), ScenarioCall(3)>>
    /\ max_promise_meta.pid = 4
    /\ max_promise_sync = Some(LogSync(12))
    /\ ret = [op |-> "set_promise", val |-> TRUE]

\* What a quorum asks of an accept count: its majority, or its write quorum size.
AcceptThreshold == IF quorum.kind = "Majority" THEN quorum.majority ELSE quorum.write_quorum_size

\* The number of peers whose accepted index recorded in acc is >= idx.
AckCount(acc, idx) == Cardinality({p \in NodeIds : p \in DOMAIN acc /\ acc[p] >= idx})

\* C2: in every reachable LeaderState and for every idx, is_chosen(idx) is
\* true iff the number of peers whose recorded accepted index is >= idx
\* reaches the accept quorum (whatever the order of the acknowledgements
\* that led to the state), and a call of is_chosen returns this.
C2_ChosenIffAcceptQuorum ==
    /\ \A idx \in 0..(MaxIdx + 1) : is_chosen(idx) = (AckCount(accepted_indexes, idx) >= AcceptThreshold)
    /\ ret.op = "is_chosen" => \E idx \in 0..(MaxIdx + 1) : ret.val = (AckCount(accepted_indexes, idx) >= AcceptThreshold)

\* is_chosen returned true while the highest index is chosen and a peer is
\* behind it.
C2_Witness ==
    /\ ret = [op |-> "is_chosen", val |-> TRUE]
    /\ is_chosen(MaxIdx)
    /\ ~is_chosen(MaxIdx + 1)
    /\ \E p \in NodeIds : get_accepted_idx(p) < MaxIdx

C10_MsgStatus ==
    ret.op = "check_msg_status" =>
        LET s == ret.self.session
            c == ret.self.counter
            s2 == ret.msg.session
            c2 == ret.msg.counter
            expected == s2 = s /\ c2 = c + 1
            atMost == s2 < s \/ (s2 = s /\ c2 <= c)
        IN /\ ret.val \in {"Expected", "Outdated", "DroppedPreceding"}
           /\ (ret.val = "Expected") = expected
           /\ (ret.val = "Outdated") = (~expected /\ atMost)
           /\ (ret.val = "DroppedPreceding") = (~expected /\ ~atMost)
           /\ (s2 = s /\ c2 = c) => ret.val = "Outdated"
           /\ (s2 = s /\ c2 = c + 2) => ret.val = "DroppedPreceding"
           /\ (s2 = s + 1 /\ c2 = c) => ret.val = "DroppedPreceding"

\* A message of the next session with the same counter is DroppedPreceding.
C10_Witness ==
    /\ ret.op = "check_msg_status"
    /\ ret.msg.session = ret.self.session + 1
    /\ ret.msg.counter = ret.self.counter
    /\ ret.val = "DroppedPreceding"

\* C11: a LogicalClock created with a timeout t >= 1 returns true on exactly
\* the calls numbered t, 2t, 3t, ... of tick_and_check_timeout and false on
\* every other call; its counter is 0 after a call that fires and counts the
\* calls since otherwise; nothing has fired before the first tick; with
\* t = 3 the results are false, false, true, repeating.
C11_FiresEveryTimeoutTicks ==
    clock.timeout >= 1 =>
        /\ \A k \in 1..Len(hist) : hist[k] = (k % clock.timeout = 0)
        /\ clock.time = Len(hist) % clock.timeout
        /\ ret.op = "tick_and_check_timeout" => (ret.val = hist[Len(hist)] /\ (ret.val => clock.time = 0))
        /\ hist = <<>> => (ret.op = "LogicalClock::with" /\ clock.time = 0)
        /\ (clock.timeout = 3 /\ Len(hist) >= 6) => SubSeq(hist, 1, 6) = <<FALSE, FALSE, TRUE, FALSE, FALSE, TRUE>>

\* A clock of timeout 3 has fired for the second time, at its sixth tick.
C11_Witness ==
    /\ clock.timeout = 3
    /\ Len(hist) = 6
    /\ ret = [op |-> "tick_and_check_timeout", val |-> TRUE]
    /\ clock.time = 0

\* C12: Quorum::with(None, N) is Majority(m) with m = floor(N/2) + 1, the
\* least m with 2m > N; Quorum::with(Some(cfg), N) is Flexible with cfg's
\* read and write sizes; is_prepare_quorum(c) is c >= majority or c >=
\* read_quorum_size, is_accept_quorum(c) is c >= majority or c >=
\* write_quorum_size; and both are monotonic non-decreasing in c.
C12_QuorumThresholds ==
    LET cfg == hist[1].flexible_quorum_config
        N == hist[1].num_nodes
    IN /\ cfg = None =>
            /\ quorum.kind = "Majority"
            /\ 2 * quorum.majority > N
            /\ 2 * (quorum.majority - 1) <= N
       /\ cfg # None =>
            /\ quorum.kind = "Flexible"
            /\ quorum.read_quorum_size = cfg[1].read_quorum_size
            /\ quorum.write_quorum_size = cfg[1].write_quorum_size
       /\ ret.op = "is_prepare_quorum" => (ret.val = (ret.num_nodes >= PrepareThreshold))
       /\ ret.op = "is_accept_quorum" => (ret.val = (ret.num_nodes >= AcceptThreshold))
       /\ \A c \in 0..MaxCluster : \A d \in c..(MaxCluster + 1) :
            /\ is_prepare_quorum(quorum, c) => is_prepare_quorum(quorum, d)
            /\ is_accept_quorum(quorum, c) => is_accept_quorum(quorum, d)

\* A flexible quorum that reads fewer nodes than it writes answered true to
\* a count that is a prepare quorum and not an accept quorum.
C12_Witness ==
    /\ ret.op = "is_prepare_quorum"
    /\ ret.val = TRUE
    /\ quorum.kind = "Flexible"
    /\ ret.num_nodes = quorum.read_quorum_size
    /\ ~is_accept_quorum(quorum, ret.num_nodes)

\* C19: for the majority quorum of Quorum::with(None, N), N >= 1, every set
\* of nodes that is a prepare quorum shares a node with every set that is an
\* accept quorum (the two thresholds add up to more than N), and all N nodes
\* are a prepare and an accept quorum (the threshold is at most N).
C19_MajorityQuorumsIntersect ==
    LET cfg == hist[1].flexible_quorum_config
        N == hist[1].num_nodes
    IN (cfg = None /\ N >= 1) =>
        /\ \A P, A \in SUBSET (1..N) :
              (is_prepare_quorum(quorum, Cardinality(P)) /\ is_accept_quorum(quorum, Cardinality(A))) => P \cap A # {}
        /\ PrepareThreshold + AcceptThreshold > N
        /\ PrepareThreshold <= N /\ AcceptThreshold <= N
        /\ is_prepare_quorum(quorum, N) /\ is_accept_quorum(quorum, N)

\* In a cluster of four, three nodes were found to be an accept quorum and
\* two are none.
C19_Witness ==
    /\ hist[1].flexible_quorum_config = None
    /\ hist[1].num_nodes = 4
    /\ ret = [op |-> "is_accept_quorum", num_nodes |-> 3, val |-> TRUE]
    /\ ~is_accept_quorum(quorum, 2)

\* The sequence number the map m holds for pid ((0, 0) if it holds none).
SeqNumIn(m, pid) == IF pid \in DOMAIN m THEN m[pid] ELSE SequenceNumber(0, 0)

\* C13: for a peer the LeaderState knows, increment_seq_num_session(pid)
\* raises pid's session by 1 and sets its counter to 0, and
\* next_seq_num(pid) raises pid's counter by 1 in the same session and
\* returns the new number, which get_seq_num(pid) reports; a fresh
\* LeaderState reports (0, 0) for every peer; neither operation changes
\* another peer's sequence number.
C13_SeqNumOperations ==
    [][/\ ret.op = "with" => \A p \in SeqPeers : get_seq_num(p) = SequenceNumber(0, 0)
       /\ ret'.op = "get_seq_num" => (ret'.val = SeqNumIn(follower_seq_nums, ret'.pid) /\ UNCHANGED follower_seq_nums)
       /\ hist' # hist =>
            LET c == hist'[Len(hist')]
                old == SeqNumIn(follower_seq_nums, c.pid)
                new == SeqNumIn(follower_seq_nums', c.pid)
            IN /\ \A q \in NodeIds \ {c.pid} : SeqNumIn(follower_seq_nums', q) = SeqNumIn(follower_seq_nums, q)
               /\ c.pid \in DOMAIN follower_seq_nums =>
                    /\ c.op = "increment_seq_num_session" => new = SequenceNumber(old.session + 1, 0)
                    /\ c.op = "next_seq_num" =>
                          /\ new = SequenceNumber(old.session, old.counter + 1)
                          /\ ret'.val = new]_vars

\* next_seq_num returned (1, 1) for a peer after a session increment, while
\* the other peer is at (0, 1).
C13_Witness ==
    /\ ret = [op |-> "next_seq_num", val |-> SequenceNumber(1, 1)]
    /\ \E p, q \in SeqPeers : get_seq_num(p) = SequenceNumber(1, 1) /\ get_seq_num(q) = SequenceNumber(0, 1)

\* Whether the i-th recorded call issued a sequence number for peer p.
Issued(i, p) == hist[i].op = "next_seq_num" /\ hist[i].pid = p

\* C20: under any interleaving of next_seq_num and
\* increment_seq_num_session, the numbers next_seq_num returns for a peer
\* are strictly increasing in the (session, counter) order; a receiver whose
\* last-seen number is an issued number a never finds a later issued number
\* b Outdated, and finds it Expected exactly when b was issued right after
\* a with no session increment of the peer in between.
C20_IssuedNumbersIncrease ==
    \A p \in SeqPeers : \A i, j \in 1..Len(hist) :
        (i < j /\ Issued(i, p) /\ Issued(j, p)) =>
            LET a == hist[i].val
                b == hist[j].val
            IN /\ SeqLe(a, b) /\ a # b
               /\ check_msg_status(a, b) # "Outdated"
               /\ (check_msg_status(a, b) = "Expected") = (\A k \in (i + 1)..(j - 1) : hist[k].pid # p)

\* A peer was issued a number, its session was incremented, and it was
\* issued two more: the third follows the second, the second does not
\* follow the first.
C20_Witness ==
    /\ Len(hist) = 4
    /\ \E p \in SeqPeers :
        /\ Issued(1, p) /\ Issued(3, p) /\ Issued(4, p)
        /\ hist[2] = [op |-> "increment_seq_num_session", pid |-> p, val |-> Unit]
        /\ check_msg_status(hist[1].val, hist[3].val) = "DroppedPreceding"
        /\ check_msg_status(hist[3].val, hist[4].val) = "Expected"

\* The position in hist of the latest call that names peer p (0: none does).
LastFor(p) == IF \E k \in 1..Len(hist) : hist[k].pid = p
              THEN CHOOSE k \in 1..Len(hist) : hist[k].pid = p /\ \A j \in (k + 1)..Len(hist) : hist[j].pid # p
              ELSE 0

\* Whether the latest call that names peer p is a set_promise.
LastIsSetPromise(p) == LastFor(p) # 0 /\ hist[LastFor(p)].op = "set_promise"

\* C14: get_promise_meta(pid) returns the metadata that the most recent
\* set_promise for pid stored when pid is Promised (no reset_promise or
\* lost_promise for pid came after it), and panics, the LeaderState
\* unchanged, when pid is NotPromised, PromisedHigher or unknown;
\* get_decided_idx(pid) returns the decided_idx of that metadata when pid is
\* Promised and None in the other cases.
C14_PromiseMetaOrPanic ==
    [][ret'.op \in {"get_promise_meta", "get_decided_idx"} =>
        LET pid == ret'.pid
            prom == hist[LastFor(pid)].prom
        IN /\ UNCHANGED lsVars
           /\ LastIsSetPromise(pid) = (Tag(promises_meta, pid) = "Promised")
           /\ ret'.op = "get_promise_meta" =>
                /\ ret'.panicked = (Tag(promises_meta, pid) \in {"NotPromised", "PromisedHigher", "Unknown"})
                /\ ~ret'.panicked => ret'.val = PromiseMetaData(prom.n_accepted, prom.accepted_idx, prom.decided_idx, pid)
           /\ ret'.op = "get_decided_idx" =>
                ret'.val = IF Tag(promises_meta, pid) = "Promised" THEN Some(prom.decided_idx) ELSE None]_vars

\* get_promise_meta returned the metadata of the second of two unlike
\* promises of a peer.
C14_Witness ==
    /\ ret.op = "get_promise_meta"
    /\ ~ret.panicked
    /\ Len(hist) >= 2
    /\ hist[1].op = "set_promise" /\ hist[2].op = "set_promise"
    /\ hist[1].pid = ret.pid /\ hist[2].pid = ret.pid
    /\ hist[1].prom # hist[2].prom
    /\ LastFor(ret.pid) = 2
    /\ ret.val.decided_idx = hist[2].prom.decided_idx

\* Whether lost_promise(p) was called and no reset_promise(p) after it.
LostAndNotReset(p) ==
    \E k \in 1..Len(hist) :
        /\ hist[k].op = "lost_promise" /\ hist[k].pid = p
        /\ \A j \in (k + 1)..Len(hist) : ~(hist[j].op = "reset_promise" /\ hist[j].pid = p)

\* The pids of a list.
Range(s) == {s[i] : i \in DOMAIN s}

ExactlyOne(x, y, z) == (x /\ ~y /\ ~z) \/ (~x /\ y /\ ~z) \/ (~x /\ ~y /\ z)

\* C16: the PromiseMetaData ordering is a strict weak order: a == b iff
\* n_accepted, accepted_idx and pid match (decided_idx ignored); a > b iff
\* a's ballot is greater, or the ballots are equal and a's accepted index is
\* greater; > is transitive; and of a < b, a == b, a > b exactly one holds,
\* with a < b iff b > a.
C16_StrictWeakOrder ==
    ret.op = "partial_cmp" =>
        LET a == ret.self
            b == ret.other
        IN /\ ret.eq = (<<a.n_accepted, a.accepted_idx, a.pid>> = <<b.n_accepted, b.accepted_idx, b.pid>>)
           /\ (ret.val = "Greater") = (BallotGt(a.n_accepted, b.n_accepted) \/ (a.n_accepted = b.n_accepted /\ a.accepted_idx > b.accepted_idx))
           /\ \A c \in Metas : (Gt(a, b) /\ Gt(b, c)) => Gt(a, c)
           /\ ExactlyOne(Lt(a, b), ret.eq, ret.val = "Greater")
           /\ (ret.val = "Less") = Gt(b, a)

\* C17: a set_accepted_idx(pid, i) that repeats the call before it leaves
\* the LeaderState as it was, and with it is_chosen(j) for every j; the
\* peers counted for an index above 0 are never more than the distinct
\* peers that have acknowledged.
C17_RepeatedAckIdempotent ==
    [][/\ (hist' # hist /\ hist # <<>> /\ hist'[Len(hist')] = hist[Len(hist)]) =>
            /\ UNCHANGED lsVars
            /\ \A j \in AckIdxs \cup {101} : is_chosen(j)' = is_chosen(j)
       /\ \A j \in (AckIdxs \cup {101}) \ {0} : num_accepted(j) <= Cardinality({hist[k].pid : k \in 1..Len(hist)})]_vars

\* Index 100 is chosen by two peers, the second of which acknowledged it
\* twice in a row.
C17_Witness ==
    /\ Len(hist) = 3
    /\ hist[2] = hist[3]
    /\ hist[1].pid # hist[2].pid
    /\ hist[1].idx = 100 /\ hist[2].idx = 100
    /\ ret = [op |-> "is_chosen", val |-> TRUE]
    /\ is_chosen(100)
    /\ num_accepted(100) = 2

\* Whether index i was written through index_mut.
Written(i) == \E k \in 1..Len(hist) : hist[k].index = i

\* The value the latest index_mut of index i left behind.
LastWritten(i) == hist[CHOOSE k \in 1..Len(hist) : hist[k].index = i /\ \A j \in (k + 1)..Len(hist) : hist[j].index # i].value

\* What a vector of length max_size holds at index i < max_size: the last
\* value written, or the default value if none was.
VectorAt(i) == IF Written(i) THEN LastWritten(i) ELSE vec_like.default_value

\* C18: a VecLike of default d and bound m behaves like a lazily allocated
\* vector of length m: get and indexing yield d at an index below m that
\* was never written and the last value written at a written one, and
\* change nothing; get is None and indexing (mutable or not) panics at an
\* index >= m; and the number of allocated entries is the number of
\* distinct indexes written through mutable indexing.
C18_LazyVector ==
    [][/\ \A i \in 0..MaxSize :
            /\ get(i) = IF i >= vec_like.max_size THEN None ELSE Some(VectorAt(i))
            /\ index(i).panicked = (i >= vec_like.max_size)
            /\ ~index(i).panicked => index(i).val = VectorAt(i)
       /\ allocated_count = Cardinality({hist[k].index : k \in 1..Len(hist)})
       /\ is_empty = (vec_like.max_size = 0)
       /\ ret'.op = "get" => (UNCHANGED vec_like /\ ret'.val = IF ret'.index >= vec_like.max_size THEN None ELSE Some(VectorAt(ret'.index)))
       /\ ret'.op = "index" =>
            /\ UNCHANGED vec_like
            /\ ret'.panicked = (ret'.index >= vec_like.max_size)
            /\ ~ret'.panicked => ret'.val = VectorAt(ret'.index)
       /\ ret'.op = "index_mut" =>
            /\ ret'.panicked = (ret'.index >= vec_like.max_size)
            /\ ret'.panicked => UNCHANGED vec_like
            /\ ~ret'.panicked => \A i \in 0..MaxSize : get(i)' = IF i = ret'.index THEN Some(ret'.val) ELSE get(i)]_vars

\* Two indexes of a VecLike were written, one of them with a value that is
\* not the default; two entries are allocated, and indexing a third index
\* returned the default value.
C18_Witness ==
    /\ Len(hist) = 2
    /\ hist[1].index # hist[2].index
    /\ hist[1].value # vec_like.default_value
    /\ allocated_count = 2
    /\ ret.op = "index" /\ ~ret.panicked
    /\ ~Written(ret.index)
    /\ ret.val = vec_like.default_value

\* The entry map m holds for pid ("Absent": none).
EntryOf(m, pid) == IF pid \in DOMAIN m THEN m[pid] ELSE "Absent"

\* C21: reset_promise(pid) and lost_promise(pid) change only pid's own
\* promise state: max_promise_meta, max_promise_sync, every peer's accepted
\* index, sequence number and latest accept metadata and every other peer's
\* promise state stay as they were; set_promise changes no accepted index;
\* and is_chosen answers the same before and after each of the three.
C21_PromiseOperationsFrame ==
    [][hist' # hist =>
        LET c == hist'[Len(hist')]
        IN /\ c.op \in {"reset_promise", "lost_promise"} =>
                /\ UNCHANGED <<max_promise_meta, max_promise_sync>>
                /\ UNCHANGED <<n_leader, quorum>>
                /\ \A q \in NodeIds :
                      /\ EntryOf(accepted_indexes', q) = EntryOf(accepted_indexes, q)
                      /\ EntryOf(follower_seq_nums', q) = EntryOf(follower_seq_nums, q)
                      /\ EntryOf(latest_accept_meta', q) = EntryOf(latest_accept_meta, q)
                      /\ get_latest_accept_meta(q)' = get_latest_accept_meta(q)
                      /\ q # c.pid => EntryOf(promises_meta', q) = EntryOf(promises_meta, q)
           /\ c.op = "set_promise" => \A q \in NodeIds : EntryOf(accepted_indexes', q) = EntryOf(accepted_indexes, q)
           /\ c.op \in {"set_promise", "reset_promise", "lost_promise"} =>
                \A idx \in 0..(MaxIdx + 1) : is_chosen(idx)' = is_chosen(idx)]_vars

\* The peer whose promise is the maximum lost its promise: the maximum and
\* its LogSync are retained, and a peer's acknowledged index is as it was.
C21_Witness ==
    /\ Len(hist) = 3
    /\ hist[3].op = "lost_promise"
    /\ hist[3].pid = max_promise_meta.pid
    /\ Tag(promises_meta, max_promise_meta.pid) = "PromisedHigher"
    /\ max_promise_sync # None
    /\ \E p \in FramePeers : get_accepted_idx(p) = MaxIdx

====
